---- MODULE Spec2Model ----
(***************************************************************************)
(* A model of stats.py: one-shot host statistics (CPU utilisation, memory  *)
(* usage, number of processes), printed as one line and optionally         *)
(* appended to a file.                                                     *)
(*                                                                         *)
(* Text is modelled as TLA+ strings and taken apart character by           *)
(* character (Len, SubSeq, \o), so that splitting, prefix tests, number    *)
(* parsing and formatting are computed the way the Python code computes    *)
(* them.  Floats are modelled by exact integer/rational arithmetic: every  *)
(* number that occurs is an integer far below 2^53 or a ratio of two such. *)
(***************************************************************************)
EXTENDS Integers, Sequences, FiniteSets, TLC

(***************************************************************************)
(* Bounds of the model.                                                    *)
(***************************************************************************)
MaxTick == 1          \* CPU counter fields range over 0..MaxTick
MaxFields == 4        \* a CPU record has 4..MaxFields counter fields
MaxMemUnits == 3      \* memory counters range over 256 kB * (0..MaxMemUnits)
MaxStartClock == 1    \* the clock at start, in sleep intervals
NumCalls == 2         \* invocations that use dump_stats on the same path

(***************************************************************************)
(* Python string helpers.                                                  *)
(***************************************************************************)
Char(s, i) == SubSeq(s, i, i)

Whitespace == {" ", "\t", "\n"}

Digits == {"0", "1", "2", "3", "4", "5", "6", "7", "8", "9"}

DigitVal(c) ==
    CASE c = "0" -> 0 [] c = "1" -> 1 [] c = "2" -> 2 [] c = "3" -> 3
      [] c = "4" -> 4 [] c = "5" -> 5 [] c = "6" -> 6 [] c = "7" -> 7
      [] c = "8" -> 8 [] c = "9" -> 9

\* str.strip(): drop leading and trailing whitespace.
RECURSIVE LStrip(_)
LStrip(s) ==
    IF Len(s) > 0 /\ Char(s, 1) \in Whitespace
    THEN LStrip(SubSeq(s, 2, Len(s)))
    ELSE s

RECURSIVE RStrip(_)
RStrip(s) ==
    IF Len(s) > 0 /\ Char(s, Len(s)) \in Whitespace
    THEN RStrip(SubSeq(s, 1, Len(s) - 1))
    ELSE s

Strip(s) == RStrip(LStrip(s))

\* str.split() with no separator: the maximal runs of non-whitespace.
RECURSIVE SplitFrom(_, _, _, _)
SplitFrom(s, i, cur, acc) ==
    IF i > Len(s)
    THEN IF cur = "" THEN acc ELSE Append(acc, cur)
    ELSE IF Char(s, i) \in Whitespace
         THEN SplitFrom(s, i + 1, "", IF cur = "" THEN acc ELSE Append(acc, cur))
         ELSE SplitFrom(s, i + 1, cur \o Char(s, i), acc)

Split(s) == SplitFrom(s, 1, "", <<>>)

\* str.startswith(prefix) and str.startswith(tuple of prefixes).
StartsWith(s, prefix) ==
    Len(s) >= Len(prefix) /\ SubSeq(s, 1, Len(prefix)) = prefix

StartsWithAny(s, prefixes) == \E k \in 1..Len(prefixes) : StartsWith(s, prefixes[k])

\* s[:-1]
DropLast(s) == SubSeq(s, 1, Len(s) - 1)

\* str.isdigit(): non-empty and all decimal digits.
IsDigit(s) == Len(s) > 0 /\ \A i \in 1..Len(s) : Char(s, i) \in Digits

\* float(tok): the tokens of the model are either runs of decimal digits or
\* text float() rejects with ValueError, so "parses" is "is a digit run".
IsFloat(tok) == IsDigit(tok)

RECURSIVE FloatFrom(_, _, _)
FloatFrom(tok, i, acc) ==
    IF i > Len(tok) THEN acc
    ELSE FloatFrom(tok, i + 1, 10 * acc + DigitVal(Char(tok, i)))

Float(tok) == FloatFrom(tok, 1, 0)

RECURSIVE Sum(_)
Sum(seq) == IF seq = <<>> THEN 0 ELSE Head(seq) + Sum(Tail(seq))

RECURSIVE Join(_, _)
Join(sep, seq) ==
    IF seq = <<>> THEN ""
    ELSE IF Len(seq) = 1 THEN seq[1]
    ELSE seq[1] \o sep \o Join(sep, Tail(seq))

Abs(n) == IF n < 0 THEN -n ELSE n

\* The integer nearest to num/den (den > 0), ties to the even one: what
\* round(x) and '{:.1f}' do with a float that holds num/den.
RoundHalfEven(num, den) ==
    LET q == num \div den
        r == num % den
    IN  IF 2 * r > den THEN q + 1
        ELSE IF 2 * r < den THEN q
        ELSE IF q % 2 = 0 THEN q ELSE q + 1

(***************************************************************************)
(* The samplers' arithmetic and parsing, as pure functions of the text     *)
(* they read.  A result is [err |-> "", val |-> v] or [err |-> exception]. *)
(***************************************************************************)
Ok(v) == [err |-> "", val |-> v]

Raise(e) == [err |-> e, val |-> ""]

\* [float(col) for col in line.strip().split()[1:]], then fields[3] and
\* sum(fields): the idle counter and the total of one reading.
ParseStat(line) ==
    LET toks == Split(Strip(line))
        cols == IF toks = <<>> THEN <<>> ELSE Tail(toks)
    IN  IF \E k \in 1..Len(cols) : ~IsFloat(cols[k]) THEN Raise("ValueError")
        ELSE LET fields == [k \in 1..Len(cols) |-> Float(cols[k])]
             IN  IF Len(fields) < 4 THEN Raise("IndexError")
                 ELSE Ok([idle |-> fields[4], total |-> Sum(fields)])

\* A variant with the sign of the idle share flipped.
CpuUsagePlus(idle_delta, total_delta) ==
    IF total_delta = 0 THEN Raise("ZeroDivisionError")
    ELSE IF total_delta > 0
         THEN Ok(<<100 * (total_delta + idle_delta), total_delta>>)
         ELSE Ok(<<100 * (-total_delta - idle_delta), -total_delta>>)

\* A variant that reports 0.0 when the counters did not advance.
CpuUsageGuarded(idle_delta, total_delta) ==
    IF total_delta = 0 THEN Ok(<<0, 1>>)
    ELSE IF total_delta > 0
         THEN Ok(<<100 * (total_delta - idle_delta), total_delta>>)
         ELSE Ok(<<100 * (idle_delta - total_delta), -total_delta>>)

\* 100.0 * (1.0 - idle_delta / total_delta), kept as the exact fraction
\* <<numerator, denominator>> with a positive denominator.
CpuUsage(idle_delta, total_delta) ==
    IF total_delta = 0 THEN Raise("ZeroDivisionError")
    ELSE IF total_delta > 0
         THEN Ok(<<100 * (total_delta - idle_delta), total_delta>>)
         ELSE Ok(<<100 * (idle_delta - total_delta), -total_delta>>)

\* '{0:.1f}%'.format(cpu_usage)
FormatCpu(usage) ==
    LET tenths == RoundHalfEven(10 * Abs(usage[1]), usage[2])
    IN  (IF usage[1] < 0 THEN "-" ELSE "")
        \o ToString(tenths \div 10) \o "." \o ToString(tenths % 10) \o "%"

MemPrefixes == <<"MemTotal", "MemFree", "Buffers", "Cached", "Slab">>

\* mem_info[key] = value
DictSet(d, key, value) ==
    [x \in (DOMAIN d) \cup {key} |-> IF x = key THEN value ELSE d[x]]

\* A variant that stores a matching line under the name it matched.
MemKeyMatched(line_split) ==
    MemPrefixes[CHOOSE k \in 1..Len(MemPrefixes) :
                    StartsWith(line_split[1], MemPrefixes[k])]

\* The key under which a matching line is stored: line_split[0][:-1].
MemKey(line_split) == DropLast(line_split[1])

\* The loop over the lines of /proc/meminfo that fills mem_info.
RECURSIVE MemInfoFrom(_, _, _)
MemInfoFrom(lines, k, mem_info) ==
    IF k > Len(lines) THEN Ok(mem_info)
    ELSE IF ~StartsWithAny(lines[k], MemPrefixes)
         THEN MemInfoFrom(lines, k + 1, mem_info)
         ELSE LET line_split == Split(lines[k])
              IN  IF Len(line_split) < 2 THEN Raise("IndexError")
                  ELSE IF ~IsFloat(line_split[2]) THEN Raise("ValueError")
                  ELSE MemInfoFrom(lines, k + 1,
                         DictSet(mem_info, MemKey(line_split), Float(line_split[2])))

\* A variant that cuts the fraction off, as int(x / 1024.0) does.
TruncMB(used_kb) ==
    IF used_kb >= 0 THEN used_kb \div 1024 ELSE -((-used_kb) \div 1024)

\* round(x / 1024.0) for an integer number of kilobytes.
RoundMB(used_kb) == RoundHalfEven(used_kb, 1024)

\* get_memory_usage() on the lines of a readable /proc/meminfo.
MemoryUsage(lines) ==
    LET r == MemInfoFrom(lines, 1, [x \in {} |-> 0])
    IN  IF r.err # "" THEN r
        ELSE IF \E k \in 1..Len(MemPrefixes) : MemPrefixes[k] \notin DOMAIN r.val
        THEN Raise("KeyError")
        ELSE LET mem_info == r.val
                 used_mem == RoundMB(mem_info["MemTotal"] - mem_info["MemFree"]
                                - (mem_info["Buffers"] + mem_info["Cached"]
                                   + mem_info["Slab"]))
             IN  Ok(ToString(used_mem) \o "MB")

\* len([val for val in os.listdir('/proc') if val.isdigit()])
ProcessesQuantity(listing) == Len(SelectSeq(listing, IsDigit))

(***************************************************************************)
(* The environment: what the kernel and the file system show.              *)
(***************************************************************************)
Sources == {"/proc/stat", "/proc/meminfo", "/proc"}

OutPath == "stats.out"

\* The first line of /proc/stat for a reading (a tuple of tick counts); a
\* garbled record shows a non-numeric token in place of its first counter.
StatText(reading, garbled) ==
    "cpu  "
    \o Join(" ", [k \in 1..Len(reading) |->
                    IF garbled /\ k = 1 THEN "x" ELSE ToString(reading[k])])
    \o "\n"

\* The lines of /proc/meminfo for a list of <<label, kilobytes>> counters.
MemText(counters, garbled) ==
    [k \in 1..Len(counters) |->
        counters[k][1] \o ":" \o "        "
        \o (IF garbled THEN "?" ELSE ToString(counters[k][2])) \o " kB\n"]

\* datetime.now().strftime("%Y-%m-%d %H:%M:%S") with the clock counted in
\* half seconds from the start of a day.
Strftime(halfsecs) ==
    LET secs == halfsecs \div 2
    IN  "2020-01-01 00:00:" \o ToString(secs \div 10) \o ToString(secs % 10)

VARIABLES
    cpu_ticks,     \* <<R1, R2>>: the CPU counters before and after the first sleep
    mem_counters,  \* the kernel's memory counters, <<label, kB>> in file order
    proc_dir,      \* the entries of /proc
    fault,         \* per source: "ok", "unreadable" or "garbled"
    clock,         \* wall clock, in half seconds
    file,          \* the output path: [exists, data]
    stdout,        \* lines printed so far
    argv,          \* per invocation: the command line flags
    args,          \* per invocation: the argparse namespace main works on
    pc,            \* per invocation: position in main / dump_stats
    stats,         \* per invocation: the OrderedDict, as <<key, value>> pairs
    cpu,           \* per invocation: locals of get_cpu_usage
    stats_msg,     \* per invocation: the report line
    fh,            \* per invocation: the open file object of dump_stats
    exit_code,     \* per invocation: -1 while running, then the exit status
    err,           \* per invocation: the uncaught exception, "" if none
    trace          \* per invocation: calls and system operations made, in order

vars == <<cpu_ticks, mem_counters, proc_dir, fault, clock, file, stdout, argv,
          args, pc, stats, cpu, stats_msg, fh, exit_code, err, trace>>

envvars == <<cpu_ticks, mem_counters, proc_dir, fault>>

Procs == DOMAIN pc

Set(f, p, v) == [f EXCEPT ![p] = v]

Log(p, event) == trace' = Set(trace, p, Append(trace[p], event))

\* stats[key] = value on an OrderedDict: a new key goes last.
DictPut(d, key, value) ==
    IF \E k \in 1..Len(d) : d[k][1] = key
    THEN [k \in 1..Len(d) |-> IF d[k][1] = key THEN <<key, value>> ELSE d[k]]
    ELSE Append(d, <<key, value>>)

\* "{}:{}".format(key, val): a value is a string or an int.
StrVal(v) == [str |-> v]

IntVal(n) == [int |-> n]

FormatItem(item) ==
    item[1] \o ":"
    \o (IF "int" \in DOMAIN item[2] THEN ToString(item[2].int) ELSE item[2].str)

\* A variant in which the exception is caught and main goes on to report.
FailSoft(p, e) ==
    /\ pc' = Set(pc, p, "fmt")
    /\ err' = Set(err, p, e)
    /\ UNCHANGED exit_code

\* An uncaught exception: traceback, exit status 1.
Fail(p, e) ==
    /\ pc' = Set(pc, p, "exit")
    /\ exit_code' = Set(exit_code, p, 1)
    /\ err' = Set(err, p, e)

\* Control moves on inside the invocation, no exception raised.
Goto(p, label) ==
    /\ pc' = Set(pc, p, label)
    /\ UNCHANGED <<exit_code, err>>

\* main returns None: sys.exit(None), exit status 0.
Exit0(p) ==
    /\ pc' = Set(pc, p, "exit")
    /\ exit_code' = Set(exit_code, p, 0)
    /\ UNCHANGED err

(***************************************************************************)
(* main and the samplers it calls.                                         *)
(***************************************************************************)
\* A variant that leaves the flags as given.
DefaultArgsKeep(a) == a

\* No metric flag given: all three are taken.
DefaultArgs(a) ==
    IF ~(a.is_cpu \/ a.is_mem \/ a.is_proc)
    THEN [a EXCEPT !.is_cpu = TRUE, !.is_mem = TRUE, !.is_proc = TRUE]
    ELSE a

MainStart(p) ==
    /\ pc[p] = "start"
    /\ args' = Set(args, p, DefaultArgs(args[p]))
    /\ Goto(p, "cpu")
    /\ UNCHANGED <<envvars, clock, file, stdout, argv, stats, cpu, stats_msg, fh,
                   trace>>

\* if args.is_cpu: enter get_cpu_usage, open /proc/stat.
MainCpu(p) ==
    /\ pc[p] = "cpu"
    /\ IF ~args[p].is_cpu
       THEN /\ Goto(p, "mem")
            /\ UNCHANGED <<cpu, trace>>
       ELSE /\ Log(p, "get_cpu_usage")
            /\ cpu' = Set(cpu, p, [cpu[p] EXCEPT !.i = 0, !.last_idle = 0,
                                                 !.last_total = 0])
            /\ IF fault["/proc/stat"] = "unreadable"
               THEN Fail(p, "OSError")
               ELSE Goto(p, "cpu_read")
    /\ UNCHANGED <<envvars, clock, file, stdout, argv, args, stats, stats_msg, fh>>

\* One pass of the loop up to file.seek(0): read the record, take the deltas.
CpuRead(p) ==
    /\ pc[p] = "cpu_read"
    /\ Log(p, "read /proc/stat")
    /\ LET r == ParseStat(StatText(cpu_ticks[cpu[p].i + 1],
                                   fault["/proc/stat"] = "garbled"))
       IN  IF r.err # ""
           THEN Fail(p, r.err) /\ UNCHANGED cpu
           ELSE /\ cpu' = Set(cpu, p,
                      [cpu[p] EXCEPT !.idle_delta = r.val.idle - cpu[p].last_idle,
                                     !.total_delta = r.val.total - cpu[p].last_total,
                                     !.last_idle = r.val.idle,
                                     !.last_total = r.val.total])
                /\ Goto(p, "cpu_sleep")
    /\ UNCHANGED <<envvars, clock, file, stdout, argv, args, stats, stats_msg, fh>>

\* time.sleep(0.5) at the end of each pass of the loop.
CpuSleep(p) ==
    /\ pc[p] = "cpu_sleep"
    /\ Log(p, "sleep")
    /\ clock' = clock + 1
    /\ cpu' = Set(cpu, p, [cpu[p] EXCEPT !.i = cpu[p].i + 1])
    /\ Goto(p, IF cpu[p].i + 1 < 2 THEN "cpu_read" ELSE "cpu_calc")
    /\ UNCHANGED <<envvars, file, stdout, argv, args, stats, stats_msg, fh>>

\* The division and the formatting after the loop; back in main, the result
\* goes into stats.
CpuCalc(p) ==
    /\ pc[p] = "cpu_calc"
    /\ LET r == CpuUsage(cpu[p].idle_delta, cpu[p].total_delta)
       IN  IF r.err # ""
           THEN Fail(p, r.err) /\ UNCHANGED <<cpu, stats>>
           ELSE /\ cpu' = Set(cpu, p, [cpu[p] EXCEPT !.cpu_usage = r.val])
                /\ stats' = Set(stats, p,
                      DictPut(stats[p], "cpu_usage", StrVal(FormatCpu(r.val))))
                /\ Goto(p, "mem")
    /\ UNCHANGED <<envvars, clock, file, stdout, argv, args, stats_msg, fh, trace>>

\* if <enabled>: stats['mem_usage'] = get_memory_usage()
MainMemIf(p, enabled) ==
    /\ pc[p] = "mem"
    /\ IF ~enabled
       THEN /\ Goto(p, "proc")
            /\ UNCHANGED <<stats, trace>>
       ELSE /\ Log(p, "get_memory_usage")
            /\ LET r == IF fault["/proc/meminfo"] = "unreadable"
                        THEN Raise("OSError")
                        ELSE MemoryUsage(MemText(mem_counters,
                                                 fault["/proc/meminfo"] = "garbled"))
               IN  IF r.err # ""
                   THEN Fail(p, r.err) /\ UNCHANGED stats
                   ELSE /\ stats' = Set(stats, p,
                               DictPut(stats[p], "mem_usage", StrVal(r.val)))
                        /\ Goto(p, "proc")
    /\ UNCHANGED <<envvars, clock, file, stdout, argv, args, cpu, stats_msg, fh>>

\* A variant that tests the CPU flag before sampling memory.
MainMemWrongFlag(p) == MainMemIf(p, args[p].is_cpu)

MainMem(p) == MainMemIf(p, args[p].is_mem)

\* if args.is_proc: stats['proc_quantity'] = get_processes_quantity()
MainProc(p) ==
    /\ pc[p] = "proc"
    /\ IF ~args[p].is_proc
       THEN /\ Goto(p, "fmt")
            /\ UNCHANGED <<stats, trace>>
       ELSE /\ Log(p, "get_processes_quantity")
            /\ IF fault["/proc"] = "unreadable"
               THEN Fail(p, "OSError") /\ UNCHANGED stats
               ELSE /\ stats' = Set(stats, p,
                           DictPut(stats[p], "proc_quantity",
                                   IntVal(ProcessesQuantity(proc_dir))))
                    /\ Goto(p, "fmt")
    /\ UNCHANGED <<envvars, clock, file, stdout, argv, args, cpu, stats_msg, fh>>

\* '{0} {1}'.format(now, ' '.join("{}:{}".format(key, val) ...))
StatsMsg(now, d) ==
    Strftime(now) \o " " \o Join(" ", [k \in 1..Len(d) |-> FormatItem(d[k])])

MainFormat(p) ==
    /\ pc[p] = "fmt"
    /\ Log(p, "now")
    /\ stats_msg' = Set(stats_msg, p, StatsMsg(clock, stats[p]))
    /\ Goto(p, "print")
    /\ UNCHANGED <<envvars, clock, file, stdout, argv, args, stats, cpu, fh>>

MainPrint(p) ==
    /\ pc[p] = "print"
    /\ Log(p, "print")
    /\ stdout' = Append(stdout, stats_msg[p])
    /\ Goto(p, "dump")
    /\ UNCHANGED <<envvars, clock, file, argv, args, stats, cpu, stats_msg, fh>>

\* if args.filename: dump_stats(args.filename, stats_msg); then main returns.
MainDump(p) ==
    /\ pc[p] = "dump"
    /\ IF args[p].filename = ""
       THEN Exit0(p) /\ UNCHANGED trace
       ELSE Log(p, "dump_stats") /\ Goto(p, "isfile")
    /\ UNCHANGED <<envvars, clock, file, stdout, argv, args, stats, cpu, stats_msg,
                   fh>>

(***************************************************************************)
(* dump_stats: test, open, write (into the file object's buffer), close    *)
(* (which flushes the buffer to the file).                                 *)
(***************************************************************************)
\* A variant that always opens for writing.
FileModeW(exists) == "w"

\* 'a' if os.path.isfile(filename) else 'w'
FileMode(exists) == IF exists THEN "a" ELSE "w"

DumpIsFile(p) ==
    /\ pc[p] = "isfile"
    /\ Log(p, "isfile")
    /\ fh' = Set(fh, p, [filemode |-> FileMode(file.exists), buf |-> ""])
    /\ Goto(p, "open")
    /\ UNCHANGED <<envvars, clock, file, stdout, argv, args, stats, cpu, stats_msg>>

\* open(filename, filemode): 'w' creates or truncates, 'a' creates if absent.
DumpOpen(p) ==
    /\ pc[p] = "open"
    /\ Log(p, "open " \o fh[p].filemode)
    /\ file' = IF fh[p].filemode = "w"
               THEN [exists |-> TRUE, data |-> ""]
               ELSE [exists |-> TRUE, data |-> file.data]
    /\ Goto(p, "write")
    /\ UNCHANGED <<envvars, clock, stdout, argv, args, stats, cpu, stats_msg, fh>>

\* file.write('{0}\n'.format(stats_msg)): kept in the buffer until close.
DumpWrite(p) ==
    /\ pc[p] = "write"
    /\ Log(p, "write")
    /\ fh' = Set(fh, p, [fh[p] EXCEPT !.buf = stats_msg[p] \o "\n"])
    /\ Goto(p, "close")
    /\ UNCHANGED <<envvars, clock, file, stdout, argv, args, stats, cpu, stats_msg>>

\* What one write of buf does to the file: at the end in append mode, at the
\* object's own offset (still 0) in write mode.
Flush(data, filemode, buf) ==
    IF filemode = "a"
    THEN data \o buf
    ELSE buf \o SubSeq(data, Len(buf) + 1, Len(data))

\* Leaving the with block flushes and closes; dump_stats and main return.
DumpClose(p) ==
    /\ pc[p] = "close"
    /\ Log(p, "close")
    /\ file' = [file EXCEPT !.data = Flush(file.data, fh[p].filemode, fh[p].buf)]
    /\ Exit0(p)
    /\ UNCHANGED <<envvars, clock, stdout, argv, args, stats, cpu, stats_msg, fh>>

(***************************************************************************)
(* Initial states.                                                         *)
(***************************************************************************)
Flags == [is_cpu : BOOLEAN, is_mem : BOOLEAN, is_proc : BOOLEAN,
          filename : {"", OutPath}]

NoFault == [s \in Sources |-> "ok"]

\* At most one source is at fault; a directory listing cannot be garbled.
Faults ==
    {NoFault}
    \cup {[NoFault EXCEPT ![s] = "unreadable"] : s \in Sources}
    \cup {[NoFault EXCEPT ![s] = "garbled"] : s \in Sources \ {"/proc"}}

\* The counters of the worked example: 2700000 kB used.
ExampleCounters ==
    << <<"MemTotal", 8000000>>, <<"MemFree", 2000000>>,
       <<"MemAvailable", 5000000>>, <<"Buffers", 100000>>,
       <<"Cached", 3000000>>, <<"SwapCached", 0>>, <<"Slab", 200000>> >>

ExampleProcDir == <<"1", "2", "self", "42", "cmdline">>

\* One required counter as the kernel may show it: with its own label and a
\* value, under a longer label that begins with its name, or not at all.
MemVals == {256 * k : k \in 0..MaxMemUnits}

MemOptions(k) ==
    {<< <<MemPrefixes[k], v>> >> : v \in MemVals \cup {ExampleCounters[
                                         CASE k = 1 -> 1 [] k = 2 -> 2 [] k = 3 -> 4
                                           [] k = 4 -> 5 [] k = 5 -> 7][2]}}
    \cup {<< <<MemPrefixes[k] \o "Extra", 256>> >>, <<>>}

MemCounterSets ==
    {a \o b \o << <<"MemAvailable", 512>> >> \o c \o d
       \o << <<"SwapCached", 0>> >> \o e :
       a \in MemOptions(1), b \in MemOptions(2), c \in MemOptions(3),
       d \in MemOptions(4), e \in MemOptions(5)}

\* CPU records: every tuple of 4..MaxFields counters in 0..MaxTick.
Readings == UNION {[1..n -> 0..MaxTick] : n \in 4..MaxFields}

\* The few records the whole-program specification draws from; the last one
\* is too short to have an idle counter.
FewReadings == {<<1, 0, 0, 1>>, <<3, 1, 0, 2>>, <<1, 0, 0>>}

CpuLocals == [i |-> 0, last_idle |-> 0, last_total |-> 0, idle_delta |-> 0,
              total_delta |-> 0, cpu_usage |-> <<0, 1>>]

\* One invocation per element of procs, each about to run from label start.
InitProcs(procs, start) ==
    /\ pc = [p \in procs |-> start]
    /\ args = argv
    /\ stats = [p \in procs |-> <<>>]
    /\ cpu = [p \in procs |-> CpuLocals]
    /\ fh = [p \in procs |-> [filemode |-> "", buf |-> ""]]
    /\ exit_code = [p \in procs |-> -1]
    /\ err = [p \in procs |-> ""]
    /\ trace = [p \in procs |-> <<>>]
    /\ stdout = <<>>

OldLine == "2019-12-31 23:59:59 proc_quantity:7\n"

\* One invocation of the whole program, any flags, a host with at most one
\* faulty source.
Init ==
    /\ argv \in [{1} -> Flags]
    /\ cpu_ticks \in [1..2 -> FewReadings]
    /\ mem_counters \in {ExampleCounters, SubSeq(ExampleCounters, 1, 6)}
    /\ proc_dir = ExampleProcDir
    /\ fault \in Faults
    /\ clock \in 0..MaxStartClock
    /\ file \in {[exists |-> FALSE, data |-> ""], [exists |-> TRUE, data |-> OldLine]}
    /\ stats_msg = [p \in {1} |-> ""]
    /\ InitProcs({1}, "start")

Next ==
    \/ \E p \in Procs : MainStart(p)
    \/ \E p \in Procs : MainCpu(p)
    \/ \E p \in Procs : CpuRead(p)
    \/ \E p \in Procs : CpuSleep(p)
    \/ \E p \in Procs : CpuCalc(p)
    \/ \E p \in Procs : MainMem(p)
    \/ \E p \in Procs : MainProc(p)
    \/ \E p \in Procs : MainFormat(p)
    \/ \E p \in Procs : MainPrint(p)
    \/ \E p \in Procs : MainDump(p)
    \/ \E p \in Procs : DumpIsFile(p)
    \/ \E p \in Procs : DumpOpen(p)
    \/ \E p \in Procs : DumpWrite(p)
    \/ \E p \in Procs : DumpClose(p)

Spec == Init /\ [][Next]_vars

\* get_cpu_usage on every pair of records of equal length.
InitCpu ==
    /\ argv = [p \in {1} |-> [is_cpu |-> TRUE, is_mem |-> FALSE, is_proc |-> FALSE,
                              filename |-> ""]]
    /\ cpu_ticks \in {<<r1, r2>> : r1 \in Readings, r2 \in Readings}
    /\ Len(cpu_ticks[1]) = Len(cpu_ticks[2])
    /\ mem_counters = ExampleCounters
    /\ proc_dir = ExampleProcDir
    /\ fault = NoFault
    /\ clock = 0
    /\ file = [exists |-> FALSE, data |-> ""]
    /\ stats_msg = [p \in {1} |-> ""]
    /\ InitProcs({1}, "start")

\* main with no output path: dump_stats is never entered.
NextOnlyMain ==
    \/ \E p \in Procs : MainStart(p)
    \/ \E p \in Procs : MainCpu(p)
    \/ \E p \in Procs : CpuRead(p)
    \/ \E p \in Procs : CpuSleep(p)
    \/ \E p \in Procs : CpuCalc(p)
    \/ \E p \in Procs : MainMem(p)
    \/ \E p \in Procs : MainProc(p)
    \/ \E p \in Procs : MainFormat(p)
    \/ \E p \in Procs : MainPrint(p)
    \/ \E p \in Procs : MainDump(p)

SpecCpu == InitCpu /\ [][NextOnlyMain]_vars

\* get_memory_usage on every counter set.
InitMem ==
    /\ argv = [p \in {1} |-> [is_cpu |-> FALSE, is_mem |-> TRUE, is_proc |-> FALSE,
                              filename |-> ""]]
    /\ cpu_ticks = <<(<<1, 0, 0, 1>>), (<<3, 1, 0, 2>>)>>
    /\ mem_counters \in MemCounterSets
    /\ proc_dir = ExampleProcDir
    /\ fault = NoFault
    /\ clock = 0
    /\ file = [exists |-> FALSE, data |-> ""]
    /\ stats_msg = [p \in {1} |-> ""]
    /\ InitProcs({1}, "start")

\* main with only the memory metric: get_cpu_usage is never entered.
NextMem ==
    \/ \E p \in Procs : MainStart(p)
    \/ \E p \in Procs : MainCpu(p)
    \/ \E p \in Procs : MainMem(p)
    \/ \E p \in Procs : MainProc(p)
    \/ \E p \in Procs : MainFormat(p)
    \/ \E p \in Procs : MainPrint(p)
    \/ \E p \in Procs : MainDump(p)

SpecMem == InitMem /\ [][NextMem]_vars

\* NumCalls invocations that have printed their line and are about to call
\* dump_stats on the same path.
ReportLines ==
    {"2020-01-01 00:00:00 mem_usage:2637MB",
     "2020-01-01 00:00:01 cpu_usage:50.0% mem_usage:2637MB proc_quantity:3"}

InitDump ==
    /\ argv = [p \in 1..NumCalls |-> [is_cpu |-> TRUE, is_mem |-> TRUE,
                                      is_proc |-> TRUE, filename |-> OutPath]]
    /\ cpu_ticks = <<(<<1, 0, 0, 1>>), (<<3, 1, 0, 2>>)>>
    /\ mem_counters = ExampleCounters
    /\ proc_dir = ExampleProcDir
    /\ fault = NoFault
    /\ clock = 0
    /\ file \in {[exists |-> FALSE, data |-> ""], [exists |-> TRUE, data |-> ""],
                 [exists |-> TRUE, data |-> OldLine]}
    /\ stats_msg \in [1..NumCalls -> ReportLines]
    /\ InitProcs(1..NumCalls, "isfile")

\* The invocations overlap in any way.
NextDumpAny ==
    \/ \E p \in Procs : DumpIsFile(p)
    \/ \E p \in Procs : DumpOpen(p)
    \/ \E p \in Procs : DumpWrite(p)
    \/ \E p \in Procs : DumpClose(p)

SpecDump == InitDump /\ [][NextDumpAny]_vars

\* Invocation p calls dump_stats only after all earlier ones have returned.
Turn(p) == \A q \in Procs : q < p => pc[q] = "exit"

NextDumpSeq ==
    \/ \E p \in Procs : Turn(p) /\ DumpIsFile(p)
    \/ \E p \in Procs : Turn(p) /\ DumpOpen(p)
    \/ \E p \in Procs : Turn(p) /\ DumpWrite(p)
    \/ \E p \in Procs : Turn(p) /\ DumpClose(p)

SpecDumpSeq == InitDump /\ [][NextDumpSeq]_vars

(***************************************************************************)
(* Vocabulary of the properties.                                           *)
(***************************************************************************)
\* The metrics an invocation asks for: all three when no flag is given.
Requested(f) ==
    IF f.is_cpu \/ f.is_mem \/ f.is_proc
    THEN f
    ELSE [f EXCEPT !.is_cpu = TRUE, !.is_mem = TRUE, !.is_proc = TRUE]

Has(d, key) == \E k \in 1..Len(d) : d[k][1] = key

Count(seq, x) == Cardinality({k \in 1..Len(seq) : seq[k] = x})

Project(seq, keep) == SelectSeq(seq, LAMBDA x : x \in keep)

IsPrefix(a, b) == Len(a) <= Len(b) /\ SubSeq(b, 1, Len(a)) = a

Contains(text, part) ==
    \E k \in 0..(Len(text) - Len(part)) : SubSeq(text, k + 1, k + Len(part)) = part

\* The value the kernel shows for a memory counter, by its exact label.
Present(label) == \E k \in 1..Len(mem_counters) : mem_counters[k][1] = label

Counter(label) ==
    mem_counters[CHOOSE k \in 1..Len(mem_counters) : mem_counters[k][1] = label][2]

AllPresent == \A k \in 1..Len(MemPrefixes) : Present(MemPrefixes[k])

UsedKb ==
    Counter("MemTotal") - Counter("MemFree")
    - (Counter("Buffers") + Counter("Cached") + Counter("Slab"))

\* The report line has been assembled (and the invocation has not failed).
Assembled(p) ==
    \/ pc[p] \in {"print", "dump", "isfile", "open", "write", "close"}
    \/ pc[p] = "exit" /\ exit_code[p] = 0

\* The invocation is past its call of get_cpu_usage / get_memory_usage.
PastCpu(p) == pc[p] \notin {"start", "cpu", "cpu_read", "cpu_sleep", "cpu_calc"}

PastMem(p) == PastCpu(p) /\ pc[p] # "mem"

TotalDelta == Sum(cpu_ticks[2]) - Sum(cpu_ticks[1])

IdleDelta == cpu_ticks[2][4] - cpu_ticks[1][4]

(***************************************************************************)
(* C1: the report line is the timestamp followed by exactly the requested  *)
(* fields (all three when none is requested), each as name:value, in the   *)
(* order cpu_usage, mem_usage, proc_quantity, separated by single spaces;  *)
(* that line is what is printed.                                           *)
(***************************************************************************)
C1_ExpectedLine(p) ==
    LET r == Requested(argv[p])
    IN  Strftime(clock)
        \o (IF r.is_cpu THEN " cpu_usage:" \o FormatCpu(cpu[p].cpu_usage) ELSE "")
        \o (IF r.is_mem /\ AllPresent
            THEN " mem_usage:" \o ToString(RoundHalfEven(UsedKb, 1024)) \o "MB"
            ELSE IF r.is_mem THEN " mem_usage:" ELSE "")
        \o (IF r.is_proc
            THEN " proc_quantity:" \o ToString(ProcessesQuantity(proc_dir))
            ELSE "")

C1_ReportFields ==
    \A p \in Procs :
        Assembled(p) =>
            /\ stats_msg[p] = C1_ExpectedLine(p)
            /\ pc[p] # "print" => stdout = <<stats_msg[p]>>

C1_Witness ==
    \E p \in Procs :
        /\ pc[p] = "exit" /\ exit_code[p] = 0
        /\ ~(argv[p].is_cpu \/ argv[p].is_mem \/ argv[p].is_proc)
        /\ stdout = <<"2020-01-01 00:00:01 cpu_usage:75.0% mem_usage:2637MB proc_quantity:3">>

(***************************************************************************)
(* C2, as stated: whenever the two readings R1, R2 give                    *)
(* total_delta = sum(R2) - sum(R1) > 0, the utilisation computed by        *)
(* get_cpu_usage lies in 0.0 .. 100.0.                                     *)
(***************************************************************************)
InRange(usage) == 0 <= usage[1] /\ usage[1] <= 100 * usage[2]

C2_AnyReadings ==
    \A p \in Procs :
        (PastCpu(p) /\ Has(stats[p], "cpu_usage") /\ TotalDelta > 0)
            => InRange(cpu[p].cpu_usage)

(***************************************************************************)
(* C2, amended: when in addition no counter of R2 is below the same        *)
(* counter of R1, the utilisation is 100 * (1 - idle_delta / total_delta)  *)
(* with idle the fourth counter, and lies in 0.0 .. 100.0.                 *)
(***************************************************************************)
NonDecreasing ==
    \A k \in 1..Len(cpu_ticks[1]) : cpu_ticks[1][k] <= cpu_ticks[2][k]

C2_MonotoneReadings ==
    \A p \in Procs :
        (PastCpu(p) /\ Has(stats[p], "cpu_usage") /\ TotalDelta > 0 /\ NonDecreasing)
            => /\ InRange(cpu[p].cpu_usage)
               /\ cpu[p].cpu_usage[1] * TotalDelta
                     = 100 * (TotalDelta - IdleDelta) * cpu[p].cpu_usage[2]

C2_Witness ==
    \E p \in Procs :
        /\ PastCpu(p) /\ Has(stats[p], "cpu_usage")
        /\ NonDecreasing /\ TotalDelta > 0
        /\ 0 < IdleDelta /\ IdleDelta < TotalDelta
        /\ stats[p][1][2].str = "50.0%"

(***************************************************************************)
(* C3: when the two readings have equal sums (total_delta = 0),            *)
(* get_cpu_usage raises ZeroDivisionError: no utilisation is returned, the *)
(* report gets no cpu_usage field and nothing is printed.                  *)
(***************************************************************************)
C3_ZeroDeltaFails ==
    \A p \in Procs :
        (args[p].is_cpu /\ PastCpu(p) /\ TotalDelta = 0)
            => /\ pc[p] = "exit"
               /\ err[p] = "ZeroDivisionError"
               /\ exit_code[p] = 1
               /\ ~Has(stats[p], "cpu_usage")
               /\ stats_msg[p] = ""
               /\ stdout = <<>>

C3_Witness ==
    \E p \in Procs :
        /\ TotalDelta = 0 /\ cpu_ticks[1] # cpu_ticks[2]
        /\ Count(trace[p], "read /proc/stat") = 2
        /\ err[p] = "ZeroDivisionError"

(***************************************************************************)
(* C4: when MemTotal, MemFree, Buffers, Cached and Slab are all present,   *)
(* get_memory_usage returns N followed by "MB" for an integer N within 1/2 *)
(* of used_kb / 1024, used_kb = MemTotal - MemFree - (Buffers + Cached +   *)
(* Slab); for the counters of the worked example it returns "2637MB".      *)
(***************************************************************************)
IsExample ==
    /\ AllPresent
    /\ Counter("MemTotal") = 8000000 /\ Counter("MemFree") = 2000000
    /\ Counter("Buffers") = 100000 /\ Counter("Cached") = 3000000
    /\ Counter("Slab") = 200000

C4_UsedMemory ==
    \A p \in Procs :
        (args[p].is_mem /\ PastMem(p) /\ AllPresent)
            => /\ Has(stats[p], "mem_usage")
               /\ \E N \in {UsedKb \div 1024, UsedKb \div 1024 + 1} :
                     /\ stats[p][1] = <<"mem_usage", [str |-> ToString(N) \o "MB"]>>
                     /\ 2 * Abs(1024 * N - UsedKb) <= 1024
               /\ IsExample => stats[p][1][2].str = "2637MB"

C4_Witness ==
    \E p \in Procs :
        /\ IsExample /\ PastMem(p)
        /\ stats[p] = << <<"mem_usage", [str |-> "2637MB"]>> >>

(***************************************************************************)
(* C5: when one of the five required counters is absent, get_memory_usage  *)
(* raises KeyError and yields no result, also when a line with a longer    *)
(* label that begins with the missing name is present.                     *)
(***************************************************************************)
C5_MissingCounterFails ==
    \A p \in Procs :
        (args[p].is_mem /\ PastMem(p) /\ ~AllPresent)
            => /\ pc[p] = "exit"
               /\ err[p] = "KeyError"
               /\ exit_code[p] = 1
               /\ ~Has(stats[p], "mem_usage")
               /\ stdout = <<>>

C5_Witness ==
    \E p \in Procs :
        /\ ~Present("Slab") /\ Present("SlabExtra")
        /\ \A k \in 1..4 : Present(MemPrefixes[k])
        /\ Count(trace[p], "get_memory_usage") = 1
        /\ err[p] = "KeyError"

(***************************************************************************)
(* C6: the events of an invocation occur in the order CPU sampler, memory  *)
(* sampler, process counter (each only if enabled, each once), timestamp   *)
(* capture, print, append to the output file (only if a path is given).    *)
(***************************************************************************)
Samplers == {"get_cpu_usage", "get_memory_usage", "get_processes_quantity"}

MainEvents == Samplers \cup {"now", "print", "dump_stats", "close"}

SamplersOf(f) ==
    (IF Requested(f).is_cpu THEN <<"get_cpu_usage">> ELSE <<>>)
    \o (IF Requested(f).is_mem THEN <<"get_memory_usage">> ELSE <<>>)
    \o (IF Requested(f).is_proc THEN <<"get_processes_quantity">> ELSE <<>>)

EventsOf(f) ==
    SamplersOf(f) \o <<"now", "print">>
    \o (IF f.filename # "" THEN <<"dump_stats", "close">> ELSE <<>>)

C6_EventOrder ==
    \A p \in Procs :
        /\ IsPrefix(Project(trace[p], MainEvents), EventsOf(argv[p]))
        /\ (pc[p] = "exit" /\ exit_code[p] = 0)
              => Project(trace[p], MainEvents) = EventsOf(argv[p])

C6_Witness ==
    \E p \in Procs :
        /\ pc[p] = "exit" /\ exit_code[p] = 0
        /\ Project(trace[p], MainEvents)
              = <<"get_memory_usage", "get_processes_quantity", "now", "print",
                  "dump_stats", "close">>

(***************************************************************************)
(* C7: when an enabled sampler fails, the invocation fails as a whole: no  *)
(* later sampler is invoked, nothing is printed, nothing is written to the *)
(* output file, and the exit status is non-zero; a line is printed only    *)
(* when every enabled sampler has returned a value.                        *)
(***************************************************************************)
Broken(sampler) ==
    CASE sampler = "get_cpu_usage" ->
            \/ fault["/proc/stat"] # "ok"
            \/ Len(cpu_ticks[1]) < 4 \/ Len(cpu_ticks[2]) < 4
            \/ TotalDelta = 0
      [] sampler = "get_memory_usage" ->
            fault["/proc/meminfo"] # "ok" \/ ~AllPresent
      [] sampler = "get_processes_quantity" ->
            fault["/proc"] # "ok"

\* The samplers invoked up to and including the first one that fails.
UpToFirstBroken(seq) ==
    IF \E k \in 1..Len(seq) : Broken(seq[k])
    THEN SubSeq(seq, 1, CHOOSE k \in 1..Len(seq) :
                           Broken(seq[k]) /\ \A j \in 1..(k - 1) : ~Broken(seq[j]))
    ELSE seq

Untouched(f) == f \in {[exists |-> FALSE, data |-> ""], [exists |-> TRUE, data |-> OldLine]}

C7_FailureIsTotal ==
    \A p \in Procs :
        /\ err[p] # ""
              => /\ pc[p] = "exit" /\ exit_code[p] = 1
                 /\ \E k \in 1..Len(SamplersOf(argv[p])) : Broken(SamplersOf(argv[p])[k])
                 /\ Project(trace[p], MainEvents) = UpToFirstBroken(SamplersOf(argv[p]))
                 /\ stats_msg[p] = "" /\ stdout = <<>>
                 /\ Untouched(file)
        /\ (stdout # <<>> \/ exit_code[p] = 0 \/ ~Untouched(file))
              => /\ err[p] = ""
                 /\ \A k \in 1..Len(SamplersOf(argv[p])) : ~Broken(SamplersOf(argv[p])[k])
                 /\ Len(stats[p]) = Len(SamplersOf(argv[p]))

C7_Witness ==
    \E p \in Procs :
        /\ argv[p].filename = OutPath /\ argv[p].is_cpu /\ argv[p].is_mem
        /\ Broken("get_cpu_usage")
        /\ pc[p] = "exit" /\ exit_code[p] = 1 /\ err[p] = "ZeroDivisionError"

(***************************************************************************)
(* C8: successive, non-overlapping calls of dump_stats on one path only    *)
(* ever add to the file: each call appends its line and a newline after    *)
(* what the file held (creating the file if absent), no other step changes *)
(* the content, and after n calls the file holds its initial content       *)
(* followed by the n lines in call order.                                  *)
(***************************************************************************)
RECURSIVE LinesUpTo(_)
LinesUpTo(n) == IF n = 0 THEN "" ELSE LinesUpTo(n - 1) \o stats_msg[n] \o "\n"

Closes(p) == pc[p] = "close" /\ pc'[p] = "exit"

C8_Step ==
    /\ \A p \in Procs :
          Closes(p) => file'.data = file.data \o stats_msg[p] \o "\n"
    /\ (\A p \in Procs : ~Closes(p)) => file'.data = file.data
    /\ file.exists => file'.exists
    /\ \A p \in Procs : pc'[p] \in {"write", "close", "exit"} => file'.exists
    /\ (\A p \in Procs : pc'[p] = "exit")
          => file'.data \in {LinesUpTo(Cardinality(Procs)),
                             OldLine \o LinesUpTo(Cardinality(Procs))}

C8_AppendOnly == [][C8_Step]_vars

C8_Witness ==
    /\ \A p \in Procs : pc[p] = "exit" /\ exit_code[p] = 0
    /\ stats_msg[1] # stats_msg[2]
    /\ file = [exists |-> TRUE, data |-> OldLine \o LinesUpTo(Cardinality(Procs))]

(***************************************************************************)
(* C9: get_cpu_usage reads the CPU record twice and sleeps exactly once,   *)
(* between the two readings; nothing sleeps before the first reading or    *)
(* after the second, and an invocation without the CPU metric never        *)
(* sleeps.                                                                 *)
(***************************************************************************)
C9_OneSleep ==
    \A p \in Procs :
        /\ Count(trace[p], "sleep") <= 1
        /\ \A k \in 1..Len(trace[p]) :
              trace[p][k] = "sleep"
                 => Count(SubSeq(trace[p], 1, k), "read /proc/stat") = 1
        /\ Has(stats[p], "cpu_usage")
              => /\ Count(trace[p], "read /proc/stat") = 2
                 /\ Count(trace[p], "sleep") = 1
        /\ ~Requested(argv[p]).is_cpu => Count(trace[p], "sleep") = 0

(***************************************************************************)
(* C10: when invocations run dump_stats on the same path at the same       *)
(* time, the line of an invocation that has returned stays in the file     *)
(* whatever the others do, so the final file holds every invocation's      *)
(* line.                                                                   *)
(***************************************************************************)
C10_NoLineLost ==
    \A p \in Procs :
        pc[p] = "exit" => Contains(file.data, stats_msg[p] \o "\n")

====
